---- MODULE Spec2Model ----
(***************************************************************************)
(* PhotoPionProduction (CRPropa3, src/module/PhotoPionProduction.cpp):     *)
(* the module's configuration and rate tables, the stochastic step loop    *)
(* process(), the translation of a SOPHIA event in performInteraction()    *)
(* and lossLength(), for worker threads that each hold one candidate.      *)
(*                                                                         *)
(* Numbers.  Doubles are modelled exactly where the code only adds,        *)
(* multiplies and compares: a length is a fraction <<n, d>> with d >= 0,   *)
(* where d = 0 stands for the largest double / +infinity.  Rates are kept  *)
(* in hundredths of 1/Mpc (the factor 0.85 of nucleiModification is 85     *)
(* hundredths), energies in units of the nucleon rest energy, so that the  *)
(* Lorentz factor of a nucleus is E / A.  Interpolation and E / A round    *)
(* down to the unit, as a double rounds to its last bit.                   *)
(***************************************************************************)
EXTENDS Integers, Sequences, FiniteSets, TLC

\* ------------------------------------------------------------------ bounds
\* Number of worker threads of the parallel region.
NumWorkers == 2
\* Longest particle list the event generator returns in the model.
MaxParticles == 2
\* Largest redshift of a candidate.
MaxRedshift == 1
\* Largest value of -log(u) a uniform draw u gives, in whole units.
MaxLogDraw == 2
\* Longest current step of a candidate, in quarters of a Mpc.
MaxStep == 2
\* Most interactions of one process() call the model follows.
MaxInteractions == 2
\* Most data rows of a table file the loading runs read.
MaxRows == 3

Workers == 1..NumWorkers

\* --------------------------------------------------------------- fractions
Abs(x) == IF x < 0 THEN -x ELSE x

RECURSIVE Gcd(_, _)
Gcd(a, b) == IF b = 0 THEN a ELSE Gcd(b, a % b)

\* <<n, d>> in lowest terms; <<1, 0>> is +infinity, <<0, 1>> is zero.
Frac(n, d) ==
    IF d = 0 THEN <<1, 0>>
    ELSE LET g == Gcd(Abs(n), d) IN <<n \div g, d \div g>>

\* std::numeric_limits<double>::max()
DoubleMax == <<1, 0>>

FracLess(x, y) == x[1] * y[2] < y[1] * x[2]
\* as FracSub, with nothing taken off
FracKeepsFirst(x, y) == x

FracSub(x, y) == Frac(x[1] * y[2] - y[1] * x[2], x[2] * y[2])
FracPositive(x) == x[1] > 0
FracMin(x, y) == IF FracLess(y, x) THEN y ELSE x

\* ------------------------------------------------------------ particle ids
\* nucleusId(a, z) of ParticleID.h: 1000000000 + z * 10000 + a * 10
nucleusId(a, z) == 1000000000 + z * 10000 + a * 10
isNucleus(id) == Abs(id) >= 1000000000
massNumber(id) == IF isNucleus(id) THEN (Abs(id) \div 10) % 1000 ELSE 0
chargeNumber(id) == IF isNucleus(id) THEN (Abs(id) \div 10000) % 1000 ELSE 0

\* ------------------------------------------------------------ photon fields
CMB == "CMB"
IRB == "IRB"
IRB_Kneiske04 == "IRB_Kneiske04"
IRB_Kneiske10 == "IRB_Kneiske10"
IRB_Stecker05 == "IRB_Stecker05"
IRB_Franceschini08 == "IRB_Franceschini08"
IRB_withRedshift_Kneiske04 == "IRB_withRedshift_Kneiske04"
\* a selector value outside the enumeration's cases of init()
UnknownField == "UnknownField"

KnownFields ==
    {CMB, IRB, IRB_Kneiske04, IRB_Kneiske10, IRB_Stecker05,
     IRB_Franceschini08, IRB_withRedshift_Kneiske04}

\* the file init() opens for each case of its switch
DataFile(field) ==
    CASE field = CMB -> "ppp_CMB.txt"
      [] field \in {IRB, IRB_Kneiske04} -> "ppp_IRB_Kneiske04.txt"
      [] field = IRB_Kneiske10 -> "ppp_IRB_Kneiske10.txt"
      [] field = IRB_Stecker05 -> "ppp_IRB_Stecker05.txt"
      [] field = IRB_Franceschini08 -> "ppp_IRB_Franceschini08.txt"
      [] field = IRB_withRedshift_Kneiske04 -> "ppp_IRBz_Kneiske04.txt"

FileNames == {DataFile(f) : f \in KnownFields}

\* -------------------------------------------------------------- table files
\* A file is a sequence of lines; a line is a comment ('#' first) or the
\* numbers written on it.
CommentLine == [comment |-> TRUE, nums |-> <<>>]
DataLine(ns) == [comment |-> FALSE, nums |-> ns]

\* three columns: log10(gamma) protonRate neutronRate
File3(p, n) ==
    << CommentLine,
       DataLine(<<1, p, n>>),
       DataLine(<<2, 2 * p, 2 * n + 1>>),
       DataLine(<<3, 4 * p, 4 * n + 2>>) >>

\* four columns: z log10(gamma) protonRate neutronRate, one block per z
File4 ==
    << CommentLine,
       DataLine(<<0, 1, 2, 1>>),
       DataLine(<<0, 2, 4, 3>>),
       DataLine(<<0, 3, 8, 6>>),
       DataLine(<<1, 1, 4, 2>>),
       DataLine(<<1, 2, 8, 6>>),
       DataLine(<<1, 3, 16, 12>>) >>

\* the data directory of the installation; a file may be unreadable
InstalledFiles ==
    [name \in FileNames |->
        [readable |-> TRUE,
         lines |-> CASE name = "ppp_CMB.txt" -> File3(2, 1)
                     [] name = "ppp_IRBz_Kneiske04.txt" -> File4
                     [] OTHER -> File3(1, 1)]]

\* ------------------------------------------------------------ table loading
RECURSIVE Pow10(_)
Pow10(a) == IF a <= 0 THEN 1 ELSE 10 * Pow10(a - 1)

\* infile >> x1 >> ... >> xk: formatted reads skip white space, line ends
\* included; a '#' or the end of the file where a number is due fails.
\* Returns the numbers and the line the last one was read from.
RECURSIVE ReadNumbers(_, _, _, _, _)
ReadNumbers(file, li, ti, k, acc) ==
    IF k = 0 THEN [ok |-> TRUE, vals |-> acc, line |-> li]
    ELSE IF li > Len(file) THEN [ok |-> FALSE, vals |-> acc, line |-> li]
    ELSE IF ti > Len(file[li].nums) THEN
        IF li + 1 <= Len(file) /\ file[li + 1].comment
        THEN [ok |-> FALSE, vals |-> acc, line |-> li]
        ELSE ReadNumbers(file, li + 1, 1, k, acc)
    ELSE ReadNumbers(file, li, ti + 1, k - 1, Append(acc, file[li].nums[ti]))

\* The while loop of init(filename): the rows it accepts, in order.  A row
\* is <<a, b, c>> or <<z, a, b, c>>.
RECURSIVE ReadRows(_, _, _, _)
ReadRows(file, li, redshiftDependent, rows) ==
    IF li > Len(file) THEN rows
    ELSE IF file[li].comment THEN ReadRows(file, li + 1, redshiftDependent, rows)
    ELSE LET r == ReadNumbers(file, li, 1, IF redshiftDependent THEN 4 ELSE 3, <<>>)
         IN  IF r.ok
             THEN ReadRows(file, r.line + 1, redshiftDependent, Append(rows, r.vals))
             ELSE rows

\* The body of the loop for the accepted rows: what is pushed on the four
\* vectors.  t carries the vectors with zOld, aOld and doReadLorentz.
EmptyTables ==
    [tabLorentz |-> <<>>, tabRedshifts |-> <<>>, tabProtonRate |-> <<>>,
     tabNeutronRate |-> <<>>, zOld |-> -1, aOld |-> -1, doReadLorentz |-> TRUE]

PushRow(t, row, redshiftDependent) ==
    LET z == IF redshiftDependent THEN row[1] ELSE t.zOld
        a == IF redshiftDependent THEN row[2] ELSE row[1]
        b == IF redshiftDependent THEN row[3] ELSE row[2]
        c == IF redshiftDependent THEN row[4] ELSE row[3]
        doRead == t.doReadLorentz /\ ~(a < t.aOld)
    IN  [tabLorentz |-> IF doRead THEN Append(t.tabLorentz, Pow10(a))
                        ELSE t.tabLorentz,
         tabRedshifts |-> IF redshiftDependent /\ z # t.zOld
                          THEN Append(t.tabRedshifts, z) ELSE t.tabRedshifts,
         \* b / Mpc and c / Mpc: the model's rates are per Mpc
         tabProtonRate |-> Append(t.tabProtonRate, b),
         tabNeutronRate |-> Append(t.tabNeutronRate, c),
         zOld |-> z, aOld |-> a, doReadLorentz |-> doRead]

RECURSIVE PushRows(_, _, _, _)
PushRows(t, rows, i, redshiftDependent) ==
    IF i > Len(rows) THEN t
    ELSE PushRows(PushRow(t, rows[i], redshiftDependent), rows, i + 1,
                  redshiftDependent)

\* init(filename) on an opened file: the tables it leaves.
LoadTables(file, redshiftDependent) ==
    PushRows(EmptyTables, ReadRows(file, 1, redshiftDependent, <<>>), 1,
             redshiftDependent)

\* ------------------------------------------------------------ interpolation
\* std::upper_bound: the first index whose grid value exceeds x
UpperBound(X, x) ==
    IF \E i \in 1..Len(X) : X[i] > x
    THEN CHOOSE i \in 1..Len(X) : X[i] > x /\ \A j \in 1..(i - 1) : ~(X[j] > x)
    ELSE Len(X) + 1

\* interpolate(x, X, Y): linear between the bracketing grid points
interpolate(x, X, Y) ==
    LET it == UpperBound(X, x)
    IN  IF it = 1 THEN Y[1]
        ELSE IF it = Len(X) + 1 THEN Y[Len(Y)]
        ELSE LET i == it - 1
             IN  Y[i] + ((x - X[i]) * (Y[i + 1] - Y[i])) \div (X[i + 1] - X[i])

\* interpolate2d(x, y, X, Y, Z): bilinear over the blocks of Z, one block of
\* Len(Y) entries per value of X; zero outside either grid.
interpolate2d(x, y, X, Y, Z) ==
    IF X = <<>> \/ Y = <<>> THEN 0
    ELSE IF x > X[Len(X)] \/ x < X[1] \/ y > Y[Len(Y)] \/ y < Y[1] THEN 0
    ELSE LET Ny == Len(Y)
             cell(i, j) == IF i * Ny + j \in 1..Len(Z) THEN Z[i * Ny + j] ELSE 0
             iu == UpperBound(X, x) - 1
             ju == UpperBound(Y, y) - 1
             i == IF iu >= Len(X) /\ Len(X) > 1 THEN Len(X) - 1 ELSE iu
             j == IF ju >= Ny /\ Ny > 1 THEN Ny - 1 ELSE ju
             along(r) ==
                 IF Ny = 1 THEN cell(r - 1, 1)
                 ELSE cell(r - 1, j)
                      + ((y - Y[j]) * (cell(r - 1, j + 1) - cell(r - 1, j)))
                        \div (Y[j + 1] - Y[j])
         IN  IF Len(X) = 1 THEN along(1)
             ELSE along(i) + ((x - X[i]) * (along(i + 1) - along(i)))
                             \div (X[i + 1] - X[i])

\* photonFieldScaling(field, z): the photon density relative to z = 0
photonFieldScaling(field, z) == IF field = CMB THEN 1 ELSE z + 1

\* ------------------------------------------------------ nucleus modification
\* the largest r in lo..hi with r^3 <= n, by bisection
RECURSIVE ICbrt(_, _, _)
ICbrt(n, lo, hi) ==
    IF lo >= hi THEN lo
    ELSE LET mid == (lo + hi + 1) \div 2
         IN  IF mid * mid * mid <= n THEN ICbrt(n, mid, hi)
             ELSE ICbrt(n, lo, mid - 1)

\* as nucleiModification, with the light nuclei ending below A = 8
nucleiModificationBelowEight(A, X) ==
    IF A = 1 THEN 100
    ELSE IF A < 8 THEN ICbrt(85 * 85 * 85 * X * X, 0, 85 * X)
    ELSE 85 * X

\* nucleiModification(A, X) in hundredths: 0.85 * X^(2/3) is the cube root of
\* 85^3 * X^2 hundredths.
nucleiModification(A, X) ==
    IF A = 1 THEN 100
    ELSE IF A <= 8 THEN ICbrt(85 * 85 * 85 * X * X, 0, 85 * X)
    ELSE 85 * X

\* ---------------------------------------------------------------- the state
VARIABLES
    photonField,            \* the selected photon field
    doRedshiftDependent,    \* read and look up the table with a redshift axis
    havePhotons,            \* record photons, electrons and positrons
    haveNeutrinos,          \* record neutrinos
    haveAntiNucleons,       \* record antinucleons
    limit,                  \* step limit factor, in hundredths
    tabLorentz,             \* Lorentz factors of the table
    tabRedshifts,           \* redshifts of the table
    tabProtonRate,          \* rates on protons, one per row read
    tabNeutronRate,         \* rates on neutrons, one per row read
    files,                  \* the data directory: file name -> lines
    raised,                 \* the exception the last setPhotonField call threw
    loading,                \* the locals of an init(filename) call under way
    cand,                   \* worker -> its candidate
    pc,                     \* worker -> where it is in process()
    loc,                    \* worker -> the locals of process() and performInteraction()
    lock,                   \* the worker inside the omp critical region, 0 if none
    hist,                   \* worker -> what the current process() call did so far
    lossLen                 \* the value the last lossLength() call returned

moduleVars ==
    <<photonField, doRedshiftDependent, havePhotons, haveNeutrinos,
      haveAntiNucleons, limit, tabLorentz, tabRedshifts, tabProtonRate,
      tabNeutronRate, files, raised, loading>>
workerVars == <<cand, pc, loc, lock, hist>>
vars == <<moduleVars, workerVars, lossLen>>

\* ------------------------------------------------------------- the candidate
Candidate(id, E, z, step) ==
    [id |-> id, E |-> E, z |-> z, currentStep |-> step,
     nextStep |-> DoubleMax, secondaries |-> <<>>]

\* a worker with no candidate to propagate
NoCandidate == Candidate(0, 0, 0, <<0, 1>>)

\* ParticleState::getLorentzFactor: E / (m c^2), m = A nucleon masses
getLorentzFactor(c) == c.E \div massNumber(c.id)

\* Candidate::limitNextStep
limitNextStep(c, step) == [c EXCEPT !.nextStep = FracMin(c.nextStep, step)]

\* Candidate::addSecondary
addSecondary(c, id, E) ==
    [c EXCEPT !.secondaries = Append(c.secondaries, [id |-> id, E |-> E])]

NoLocals ==
    [step |-> <<0, 1>>, randDistance |-> DoubleMax, channel |-> -1,
     totalRate |-> 0, dProton |-> DoubleMax, dNeutron |-> DoubleMax,
     nature |-> -1, Ein |-> 0, background |-> 0, particles |-> <<>>]

\* no lossLength() value is held by a caller
NoLoss == [kind |-> "none", value |-> <<0, 1>>, id |-> 0, gamma |-> 0, z |-> 0]

NoHistory ==
    [start |-> NoCandidate, outcome |-> "none", draws |-> 0, drawsStart |-> 0,
     calls |-> 0, interactions |-> 0]

\* ------------------------------------------------------------- configuration
Tables(t) ==
    [tabLorentz |-> t.tabLorentz, tabRedshifts |-> t.tabRedshifts,
     tabProtonRate |-> t.tabProtonRate, tabNeutronRate |-> t.tabNeutronRate]

CurrentTables ==
    [tabLorentz |-> tabLorentz, tabRedshifts |-> tabRedshifts,
     tabProtonRate |-> tabProtonRate, tabNeutronRate |-> tabNeutronRate]

\* The case of init()'s switch sets the flag only for the field with a
\* redshift axis; no case clears it.
FlagAfterCase(field, flag) ==
    IF field = IRB_withRedshift_Kneiske04 THEN TRUE ELSE flag

\* init() followed by init(filename), from the flag and tables `flag`, `old`:
\* the flag and tables it leaves and the exception it throws.
init(field, flag, old, dir) ==
    IF field \notin KnownFields
    THEN [doRedshiftDependent |-> flag, tables |-> old,
          thrown |-> "unknown photon background"]
    ELSE LET f == FlagAfterCase(field, flag)
         IN  IF ~dir[DataFile(field)].readable
             THEN [doRedshiftDependent |-> f, tables |-> old,
                   thrown |-> "could not open file"]
             ELSE [doRedshiftDependent |-> f,
                   tables |-> Tables(LoadTables(dir[DataFile(field)].lines, f)),
                   thrown |-> "none"]

\* no init(filename) call is under way
NoLoading ==
    [active |-> FALSE, rows |-> <<>>, zOld |-> -1, aOld |-> -1,
     doReadLorentz |-> TRUE]

\* The constructor: the fields it assigns, then init().  Holds of the state
\* of a module whose construction did not throw.
Constructed(field, photons, neutrinos, antiNucleons, l, dir) ==
    LET r == init(field, FALSE, Tables(EmptyTables), dir)
    IN  /\ r.thrown = "none"
        /\ photonField = field
        /\ havePhotons = photons
        /\ haveNeutrinos = neutrinos
        /\ haveAntiNucleons = antiNucleons
        /\ limit = l
        /\ doRedshiftDependent = r.doRedshiftDependent
        /\ tabLorentz = r.tables.tabLorentz
        /\ tabRedshifts = r.tables.tabRedshifts
        /\ tabProtonRate = r.tables.tabProtonRate
        /\ tabNeutronRate = r.tables.tabNeutronRate
        /\ files = dir
        /\ raised = "none"
        /\ loading = NoLoading

NoWorkerRuns == \A w \in Workers : pc[w] \in {"off", "idle", "done", "thrown"}

setPhotonField(field) ==
    /\ NoWorkerRuns
    /\ LET r == init(field, doRedshiftDependent, CurrentTables, files)
       IN  /\ photonField' = field
           /\ doRedshiftDependent' = r.doRedshiftDependent
           /\ tabLorentz' = r.tables.tabLorentz
           /\ tabRedshifts' = r.tables.tabRedshifts
           /\ tabProtonRate' = r.tables.tabProtonRate
           /\ tabNeutronRate' = r.tables.tabNeutronRate
           /\ raised' = r.thrown
    /\ UNCHANGED <<havePhotons, haveNeutrinos, haveAntiNucleons, limit, files,
                   loading, workerVars, lossLen>>

setHavePhotons(b) ==
    /\ NoWorkerRuns
    /\ havePhotons' = b
    /\ UNCHANGED <<raised, photonField, doRedshiftDependent, haveNeutrinos,
                   haveAntiNucleons, limit, tabLorentz, tabRedshifts,
                   tabProtonRate, tabNeutronRate, files, loading, workerVars,
                   lossLen>>

setHaveNeutrinos(b) ==
    /\ NoWorkerRuns
    /\ haveNeutrinos' = b
    /\ UNCHANGED <<raised, photonField, doRedshiftDependent, havePhotons,
                   haveAntiNucleons, limit, tabLorentz, tabRedshifts,
                   tabProtonRate, tabNeutronRate, files, loading, workerVars,
                   lossLen>>

setHaveAntiNucleons(b) ==
    /\ NoWorkerRuns
    /\ haveAntiNucleons' = b
    /\ UNCHANGED <<raised, photonField, doRedshiftDependent, havePhotons,
                   haveNeutrinos, limit, tabLorentz, tabRedshifts,
                   tabProtonRate, tabNeutronRate, files, loading, workerVars,
                   lossLen>>

setLimit(l) ==
    /\ NoWorkerRuns
    /\ limit' = l
    /\ UNCHANGED <<raised, photonField, doRedshiftDependent, havePhotons,
                   haveNeutrinos, haveAntiNucleons, tabLorentz, tabRedshifts,
                   tabProtonRate, tabNeutronRate, files, loading, workerVars,
                   lossLen>>

\* ------------------------------------------------------------------ process
\* as OutOfRange, with the grid's end points counted as outside
OutOfRangeOrOnBound(gamma, X) == gamma <= X[1] \/ gamma >= X[Len(X)]

\* line 148: the boosted Lorentz factor is outside the tabulated range
OutOfRange(gamma, X) == gamma < X[1] \/ gamma > X[Len(X)]

\* lines 166-169 and 177-180: the rate of one channel, in hundredths
ChannelRate(z, gamma, A, X, tabRate) ==
    LET scaling == (1 + z) * (1 + z) * photonFieldScaling(photonField, z)
        rate == IF ~doRedshiftDependent
                THEN scaling * interpolate(gamma, tabLorentz, tabRate)
                ELSE interpolate2d(z, gamma, tabRedshifts, tabLorentz, tabRate)
    IN  rate * nucleiModification(A, X)

\* -log(random.rand()) / rate, for the value u of -log(random.rand())
Distance(u, rate) == Frac(100 * u, rate)

\* as NeutronCloser, with the comparison d <= randDistance
NeutronCloserOrEqual(d, randDistance) == ~FracLess(randDistance, d)

\* line 183: the neutron channel replaces the proton channel
NeutronCloser(d, randDistance) == FracLess(d, randDistance)

\* as NoInteraction, with the comparison step <= randDistance
NoInteractionOrEqual(step, randDistance) == ~FracLess(randDistance, step)

\* as NoInteraction, with an interaction up to twice the step allowed
NoInteractionBeyondTwice(step, randDistance) ==
    FracLess(<<2 * step[1], step[2]>>, randDistance)

\* line 190: the interaction does not happen within the step
NoInteraction(step, randDistance) == FracLess(step, randDistance)

\* as TotalRate, adding both rates whether or not the channel exists
TotalRateBothChannels(rateP, rateN, Z, N) == rateP + rateN

\* lines 155, 170, 181: the rates of the available channels, summed
TotalRate(rateP, rateN, Z, N) ==
    (IF Z > 0 THEN rateP ELSE 0) + (IF N > 0 THEN rateN ELSE 0)

\* line 191: the length the next step is limited to
StepLimit(l, totalRate) == Frac(l, totalRate)

\* lines 160-181: the rates of the two channels for candidate c
ChannelRates(c) ==
    LET z == c.z
        gamma == (1 + z) * getLorentzFactor(c)
        A == massNumber(c.id)
        Z == chargeNumber(c.id)
        N == A - Z
    IN  [Z |-> Z, N |-> N,
         rateP |-> ChannelRate(z, gamma, A, Z, tabProtonRate),
         rateN |-> ChannelRate(z, gamma, A, N, tabNeutronRate)]

\* as Sampling, with the proton channel sampled whether or not Z > 0
SamplingProtonAlways(r, uP, uN) ==
    LET dP == Distance(uP, r.rateP)
        dN == IF r.N > 0 THEN Distance(uN, r.rateN) ELSE DoubleMax
        neutron == r.N > 0 /\ NeutronCloser(dN, dP)
        total == TotalRate(r.rateP, r.rateN, r.Z, r.N)
    IN  [randDistance |-> IF neutron THEN dN ELSE dP,
         channel |-> IF neutron THEN 0 ELSE 1,
         totalRate |-> total,
         nextLimit |-> StepLimit(limit, total),
         dProton |-> dP, dNeutron |-> dN,
         draws |-> 1 + (IF r.N > 0 THEN 1 ELSE 0)]

\* lines 151-187: the channel, distance and total rate one iteration samples
\* from the rates r for the draws uP, uN (values of -log(random.rand())).
Sampling(r, uP, uN) ==
    LET dP == IF r.Z > 0 THEN Distance(uP, r.rateP) ELSE DoubleMax
        dN == IF r.N > 0 THEN Distance(uN, r.rateN) ELSE DoubleMax
        neutron == r.N > 0 /\ NeutronCloser(dN, dP)
        total == TotalRate(r.rateP, r.rateN, r.Z, r.N)
    IN  [randDistance |-> IF neutron THEN dN ELSE dP,
         channel |-> IF neutron THEN 0 ELSE IF r.Z > 0 THEN 1 ELSE -1,
         totalRate |-> total,
         nextLimit |-> StepLimit(limit, total),
         dProton |-> dP, dNeutron |-> dN,
         draws |-> (IF r.Z > 0 THEN 1 ELSE 0) + (IF r.N > 0 THEN 1 ELSE 0)]

LogDraws == 1..MaxLogDraw

\* line 137: process() is entered
StartProcess(w) ==
    /\ pc[w] = "idle"
    /\ pc' = [pc EXCEPT ![w] = "loop"]
    /\ loc' = [loc EXCEPT ![w] = [NoLocals EXCEPT !.step = cand[w].currentStep]]
    /\ hist' = [hist EXCEPT ![w] = [NoHistory EXCEPT !.start = cand[w]]]
    /\ lossLen' = NoLoss
    /\ UNCHANGED <<moduleVars, cand, lock>>

\* lines 139-196 and 204-225: one pass of the loop body, up to its return
\* or to the critical region of performInteraction.
Iterate(w) ==
    /\ pc[w] = "loop"
    /\ LET c == cand[w]
           h == [hist[w] EXCEPT !.start = c, !.drawsStart = hist[w].draws]
       IN  IF ~isNucleus(c.id)
           THEN /\ pc' = [pc EXCEPT ![w] = "done"]
                /\ hist' = [hist EXCEPT ![w] = [h EXCEPT !.outcome = "not_nucleus"]]
                /\ UNCHANGED <<cand, loc>>
           ELSE IF OutOfRange((1 + c.z) * getLorentzFactor(c), tabLorentz)
           THEN /\ pc' = [pc EXCEPT ![w] = "done"]
                /\ hist' = [hist EXCEPT ![w] = [h EXCEPT !.outcome = "out_of_range"]]
                /\ UNCHANGED <<cand, loc>>
           ELSE \E r \in {ChannelRates(c)}, uP \in LogDraws, uN \in LogDraws :
                \E s \in {Sampling(r, uP, uN)} :
                LET l == [loc[w] EXCEPT !.randDistance = s.randDistance,
                                        !.channel = s.channel,
                                        !.totalRate = s.totalRate,
                                        !.dProton = s.dProton,
                                        !.dNeutron = s.dNeutron]
                    hd == [h EXCEPT !.draws = @ + s.draws]
                IN  IF NoInteraction(loc[w].step, s.randDistance)
                    THEN /\ cand' = [cand EXCEPT ![w] = limitNextStep(c, s.nextLimit)]
                         /\ loc' = [loc EXCEPT ![w] = l]
                         /\ hist' = [hist EXCEPT ![w] = [hd EXCEPT !.outcome = "defer"]]
                         /\ pc' = [pc EXCEPT ![w] = "done"]
                    ELSE /\ hist[w].interactions < MaxInteractions
                         /\ loc' = [loc EXCEPT ![w] =
                                [l EXCEPT !.nature = 1 - s.channel,
                                          !.Ein = c.E \div massNumber(c.id),
                                          !.background = IF photonField = CMB
                                                         THEN 1 ELSE 2,
                                          !.particles = <<>>]]
                         /\ hist' = [hist EXCEPT ![w] =
                                [hd EXCEPT !.outcome = "interact",
                                           !.interactions = @ + 1]]
                         /\ pc' = [pc EXCEPT ![w] = "call"]
                         /\ UNCHANGED cand
    /\ UNCHANGED <<moduleVars, lock, lossLen>>

\* ------------------------------------------------------- performInteraction
\* the particle codes the switch of lines 236-287 has a case for
NucleonCodes == {13, 14}
AntiNucleonCodes == {-13, -14}
PhotonCodes == {1, 2, 3}
NeutrinoCodes == {15, 16, 17, 18}
KnownCodes == NucleonCodes \cup AntiNucleonCodes \cup PhotonCodes \cup NeutrinoCodes

Toggles(photons, neutrinos, antiNucleons) ==
    [havePhotons |-> photons, haveNeutrinos |-> neutrinos,
     haveAntiNucleons |-> antiNucleons]

CurrentToggles == Toggles(havePhotons, haveNeutrinos, haveAntiNucleons)

\* as Nucleon, with the fragment's mass number left at A
NucleonKeepsMass(c, p, A, Z, E, sign, channel) ==
    IF A = 1
    THEN [c EXCEPT !.E = p.Eout, !.id = sign * nucleusId(1, 14 - p.pType)]
    ELSE addSecondary(
             [c EXCEPT !.E = E - E \div A,
                       !.id = sign * nucleusId(A, Z - channel)],
             sign * nucleusId(1, 14 - p.pType), p.Eout)

\* as Nucleon, with the fragment's charge left at Z on either channel
NucleonKeepsCharge(c, p, A, Z, E, sign, channel) ==
    IF A = 1
    THEN [c EXCEPT !.E = p.Eout, !.id = sign * nucleusId(1, 14 - p.pType)]
    ELSE addSecondary(
             [c EXCEPT !.E = E - E \div A, !.id = sign * nucleusId(A - 1, Z)],
             sign * nucleusId(1, 14 - p.pType), p.Eout)

\* as Nucleon, with a bare nucleon's energy left as it was
NucleonKeepsEnergy(c, p, A, Z, E, sign, channel) ==
    IF A = 1
    THEN [c EXCEPT !.id = sign * nucleusId(1, 14 - p.pType)]
    ELSE addSecondary(
             [c EXCEPT !.E = E - E \div A,
                       !.id = sign * nucleusId(A - 1, Z - channel)],
             sign * nucleusId(1, 14 - p.pType), p.Eout)

\* as Nucleon, with the ids of a matter primary whatever the sign
NucleonOfMatter(c, p, A, Z, E, sign, channel) ==
    IF A = 1
    THEN [c EXCEPT !.E = p.Eout, !.id = nucleusId(1, 14 - p.pType)]
    ELSE addSecondary(
             [c EXCEPT !.E = E - E \div A,
                       !.id = nucleusId(A - 1, Z - channel)],
             nucleusId(1, 14 - p.pType), p.Eout)

\* lines 237-249: an outgoing proton or neutron.  A, Z, E are the values
\* read at the entry of performInteraction.
Nucleon(c, p, A, Z, E, sign, channel) ==
    IF A = 1
    THEN [c EXCEPT !.E = p.Eout, !.id = sign * nucleusId(1, 14 - p.pType)]
    ELSE addSecondary(
             [c EXCEPT !.E = E - E \div A,
                       !.id = sign * nucleusId(A - 1, Z - channel)],
             sign * nucleusId(1, 14 - p.pType), p.Eout)

\* as Secondary, with the neutrinos recorded under the photon switch
SecondaryNeutrinosAsPhotons(c, p, sign, t) ==
    LET pType == p.pType
    IN  CASE pType \in AntiNucleonCodes ->
                 IF t.haveAntiNucleons
                 THEN addSecondary(c, -sign * nucleusId(1, 14 + pType), p.Eout)
                 ELSE c
          [] pType \in PhotonCodes ->
                 IF t.havePhotons
                 THEN addSecondary(c, CASE pType = 1 -> 22
                                        [] pType = 2 -> sign * (-11)
                                        [] pType = 3 -> sign * 11, p.Eout)
                 ELSE c
          [] pType \in NeutrinoCodes ->
                 IF t.havePhotons
                 THEN addSecondary(c, CASE pType = 15 -> sign * 12
                                        [] pType = 16 -> sign * (-12)
                                        [] pType = 17 -> sign * 14
                                        [] pType = 18 -> sign * (-14), p.Eout)
                 ELSE c

\* as Secondary, with the recorded particle put in front of the list
SecondaryInFront(c, p, sign, t) ==
    LET pType == p.pType
        id == CASE pType \in AntiNucleonCodes -> -sign * nucleusId(1, 14 + pType)
                [] pType = 1 -> 22
                [] pType = 2 -> sign * (-11)
                [] pType = 3 -> sign * 11
                [] pType = 15 -> sign * 12
                [] pType = 16 -> sign * (-12)
                [] pType = 17 -> sign * 14
                [] pType = 18 -> sign * (-14)
        on == CASE pType \in AntiNucleonCodes -> t.haveAntiNucleons
                [] pType \in PhotonCodes -> t.havePhotons
                [] pType \in NeutrinoCodes -> t.haveNeutrinos
    IN  IF on
        THEN [c EXCEPT !.secondaries = <<[id |-> id, E |-> p.Eout]>> \o @]
        ELSE c

\* lines 250-282: the secondaries the recording switches allow
Secondary(c, p, sign, t) ==
    LET pType == p.pType
    IN  CASE pType \in AntiNucleonCodes ->
                 IF t.haveAntiNucleons
                 THEN addSecondary(c, -sign * nucleusId(1, 14 + pType), p.Eout)
                 ELSE c
          [] pType \in PhotonCodes ->
                 IF t.havePhotons
                 THEN addSecondary(c, CASE pType = 1 -> 22
                                        [] pType = 2 -> sign * (-11)
                                        [] pType = 3 -> sign * 11, p.Eout)
                 ELSE c
          [] pType \in NeutrinoCodes ->
                 IF t.haveNeutrinos
                 THEN addSecondary(c, CASE pType = 15 -> sign * 12
                                        [] pType = 16 -> sign * (-12)
                                        [] pType = 17 -> sign * 14
                                        [] pType = 18 -> sign * (-14), p.Eout)
                 ELSE c

\* as TranslateFrom, with a code that has no case skipped
RECURSIVE TranslateSkipsUnknown(_, _, _, _, _, _, _, _, _)
TranslateSkipsUnknown(c, particles, i, A, Z, E, sign, channel, t) ==
    IF i > Len(particles) THEN [cand |-> c, thrown |-> FALSE]
    ELSE LET p == particles[i]
         IN  IF p.pType \in NucleonCodes
             THEN TranslateSkipsUnknown(Nucleon(c, p, A, Z, E, sign, channel),
                                        particles, i + 1, A, Z, E, sign, channel, t)
             ELSE IF p.pType \in KnownCodes
             THEN TranslateSkipsUnknown(Secondary(c, p, sign, t),
                                        particles, i + 1, A, Z, E, sign, channel, t)
             ELSE TranslateSkipsUnknown(c, particles, i + 1, A, Z, E, sign,
                                        channel, t)

\* lines 233-288: the loop over the outgoing particles from particle i on;
\* the candidate it leaves and whether the default case threw.
RECURSIVE TranslateFrom(_, _, _, _, _, _, _, _, _)
TranslateFrom(c, particles, i, A, Z, E, sign, channel, t) ==
    IF i > Len(particles) THEN [cand |-> c, thrown |-> FALSE]
    ELSE LET p == particles[i]
         IN  IF p.pType \in NucleonCodes
             THEN TranslateFrom(Nucleon(c, p, A, Z, E, sign, channel),
                                particles, i + 1, A, Z, E, sign, channel, t)
             ELSE IF p.pType \in KnownCodes
             THEN TranslateFrom(Secondary(c, p, sign, t),
                                particles, i + 1, A, Z, E, sign, channel, t)
             ELSE [cand |-> c, thrown |-> TRUE]

\* lines 204-214 and 233-288: performInteraction after the generator returned
Translate(c, particles, channel, t) ==
    TranslateFrom(c, particles, 1, massNumber(c.id), chargeNumber(c.id), c.E,
                  IF c.id > 0 THEN 1 ELSE -1, channel, t)

\* as CriticalFree, without the critical region
CriticalNeverHeld(w) == TRUE

\* line 227: the critical region is free for worker w to enter
CriticalFree(w) == lock = 0

\* lines 227-228: enter the omp critical region
EnterCritical(w) ==
    /\ pc[w] = "call"
    /\ CriticalFree(w)
    /\ lock' = w
    /\ pc' = [pc EXCEPT ![w] = "sophia"]
    /\ UNCHANGED <<moduleVars, cand, loc, hist, lossLen>>

\* lines 229-231: sophiaevent_ returns a particle list and the region is left
SophiaEvent(w, outputs) ==
    /\ pc[w] = "sophia"
    /\ \E particles \in outputs :
           loc' = [loc EXCEPT ![w].particles = particles]
    /\ hist' = [hist EXCEPT ![w].calls = @ + 1]
    /\ lock' = 0
    /\ pc' = [pc EXCEPT ![w] = "translate"]
    /\ UNCHANGED <<moduleVars, cand, lossLen>>

\* lines 233-288 and 197-198: the particles are translated, the distance is
\* taken off the step and the loop condition is tested; an unexpected
\* particle throws out of process().
TranslateEvent(w) ==
    /\ pc[w] = "translate"
    /\ LET r == Translate(cand[w], loc[w].particles, loc[w].channel, CurrentToggles)
           step == FracSub(loc[w].step, loc[w].randDistance)
       IN  /\ cand' = [cand EXCEPT ![w] = r.cand]
           /\ IF r.thrown
              THEN /\ pc' = [pc EXCEPT ![w] = "thrown"]
                   /\ UNCHANGED loc
              ELSE /\ loc' = [loc EXCEPT ![w].step = step]
                   /\ pc' = [pc EXCEPT ![w] =
                          IF FracPositive(step) THEN "loop" ELSE "done"]
    /\ UNCHANGED <<moduleVars, lock, hist, lossLen>>

\* ---------------------------------------------------------------- lossLength

\* lossLength(id, gamma, z): the largest double outside the table, else
\* 1 / lossRate (a length, infinite for a zero rate, NaN for 0 * infinity)
lossLength(id, gamma0, z) ==
    LET A == massNumber(id)
        Z == chargeNumber(id)
        N == A - Z
        gamma == gamma0 * (1 + z)
        rate == (IF Z > 0
                 THEN interpolate(gamma, tabLorentz, tabProtonRate)
                      * nucleiModification(A, Z)
                 ELSE 0)
              + (IF N > 0
                 THEN interpolate(gamma, tabLorentz, tabProtonRate)
                      * nucleiModification(A, N)
                 ELSE 0)
        \* relativeEnergyLoss as a fraction: 1 - 938/1232, or 1/A
        rel == IF A = 1 THEN <<1232 - 938, 1232>> ELSE <<1, A>>
        scaling == (1 + z) * (1 + z) * (1 + z) * photonFieldScaling(photonField, z)
    IN  IF OutOfRange(gamma, tabLorentz)
        THEN [kind |-> "max", value |-> DoubleMax]
        ELSE IF rate = 0 /\ rel[2] = 0
        THEN [kind |-> "nan", value |-> <<0, 0>>]
        ELSE IF rate * rel[1] * scaling = 0
        THEN [kind |-> "inf", value |-> <<1, 0>>]
        ELSE [kind |-> "length",
              value |-> Frac(100 * rel[2], rate * rel[1] * scaling)]

NoWorkerStarted == \A w \in Workers : pc[w] \in {"off", "idle"}

\* a caller asks for the loss length of worker w's particle at Lorentz
\* factor gamma, before the step is processed
QueryLossLength(w, gamma) ==
    /\ NoWorkerStarted
    /\ pc[w] = "idle"
    /\ lossLen = NoLoss
    /\ LET r == lossLength(cand[w].id, gamma, cand[w].z)
       IN  lossLen' = [kind |-> r.kind, value |-> r.value,
                       id |-> cand[w].id, gamma |-> gamma, z |-> cand[w].z]
    /\ UNCHANGED <<moduleVars, workerVars>>

\* ------------------------------------------- setPhotonField, step by step
\* as BeginReload, without the clear() calls of lines 90-93
BeginReloadKeepsRows(field) ==
    /\ ~loading.active
    /\ field \in KnownFields /\ files[DataFile(field)].readable
    /\ photonField' = field
    /\ doRedshiftDependent' = FlagAfterCase(field, doRedshiftDependent)
    /\ loading' =
           [NoLoading EXCEPT
               !.active = TRUE,
               !.rows = ReadRows(files[DataFile(field)].lines, 1,
                                 FlagAfterCase(field, doRedshiftDependent), <<>>)]
    /\ raised' = "none"
    /\ UNCHANGED <<tabLorentz, tabRedshifts, tabProtonRate, tabNeutronRate,
                   havePhotons, haveNeutrinos, haveAntiNucleons, limit, files,
                   workerVars, lossLen>>

\* lines 28-30, 49-96: setPhotonField up to the loop of init(filename): the
\* field is assigned, the case of the switch taken, the file opened and
\* the four vectors cleared; either throw ends the call.
BeginReload(field) ==
    /\ ~loading.active
    /\ photonField' = field
    /\ IF field \notin KnownFields
       THEN /\ raised' = "unknown photon background"
            /\ UNCHANGED <<doRedshiftDependent, tabLorentz, tabRedshifts,
                           tabProtonRate, tabNeutronRate, loading>>
       ELSE /\ doRedshiftDependent' = FlagAfterCase(field, doRedshiftDependent)
            /\ IF ~files[DataFile(field)].readable
               THEN /\ raised' = "could not open file"
                    /\ UNCHANGED <<tabLorentz, tabRedshifts, tabProtonRate,
                                   tabNeutronRate, loading>>
               ELSE /\ tabLorentz' = <<>>
                    /\ tabRedshifts' = <<>>
                    /\ tabProtonRate' = <<>>
                    /\ tabNeutronRate' = <<>>
                    /\ loading' =
                           [NoLoading EXCEPT
                               !.active = TRUE,
                               !.rows = ReadRows(
                                   files[DataFile(field)].lines, 1,
                                   FlagAfterCase(field, doRedshiftDependent),
                                   <<>>)]
                    /\ raised' = "none"
    /\ UNCHANGED <<havePhotons, haveNeutrinos, haveAntiNucleons, limit, files,
                   workerVars, lossLen>>

\* lines 98-119: one pass of the loop that reads a row and pushes it
ReloadRow ==
    /\ loading.active
    /\ loading.rows # <<>>
    /\ LET t == PushRow([tabLorentz |-> tabLorentz,
                         tabRedshifts |-> tabRedshifts,
                         tabProtonRate |-> tabProtonRate,
                         tabNeutronRate |-> tabNeutronRate,
                         zOld |-> loading.zOld, aOld |-> loading.aOld,
                         doReadLorentz |-> loading.doReadLorentz],
                        Head(loading.rows), doRedshiftDependent)
       IN  /\ tabLorentz' = t.tabLorentz
           /\ tabRedshifts' = t.tabRedshifts
           /\ tabProtonRate' = t.tabProtonRate
           /\ tabNeutronRate' = t.tabNeutronRate
           /\ loading' = [active |-> TRUE, rows |-> Tail(loading.rows),
                          zOld |-> t.zOld, aOld |-> t.aOld,
                          doReadLorentz |-> t.doReadLorentz]
    /\ UNCHANGED <<photonField, doRedshiftDependent, havePhotons, haveNeutrinos,
                   haveAntiNucleons, limit, files, raised, workerVars, lossLen>>

\* lines 121-125: the loop has ended and init(filename) returns
EndReload ==
    /\ loading.active
    /\ loading.rows = <<>>
    /\ loading' = NoLoading
    /\ UNCHANGED <<photonField, doRedshiftDependent, havePhotons, haveNeutrinos,
                   haveAntiNucleons, limit, tabLorentz, tabRedshifts,
                   tabProtonRate, tabNeutronRate, files, raised, workerVars,
                   lossLen>>

\* lines 139-196 while no other thread is inside init(filename), or for a
\* particle that returns before the table is read
IterateSettled(w) ==
    /\ ~loading.active \/ ~isNucleus(cand[w].id)
    /\ Iterate(w)

\* lines 147-149 while another thread is inside init(filename): front()
\* and back() of a vector that is empty or being written, a data race.
\* Of the outcomes the build can produce the call returning as out of
\* range and the crash are followed.
RacingIterate(w) ==
    /\ pc[w] = "loop"
    /\ loading.active
    /\ isNucleus(cand[w].id)
    /\ \E outcome \in {"done", "crashed"} : pc' = [pc EXCEPT ![w] = outcome]
    /\ hist' = [hist EXCEPT ![w] =
           [@ EXCEPT !.start = cand[w], !.drawsStart = hist[w].draws,
                     !.outcome = "raced"]]
    /\ UNCHANGED <<moduleVars, cand, loc, lock, lossLen>>

\* lossLength() while no other thread is inside init(filename)
QuerySettled(w, gamma) ==
    /\ ~loading.active
    /\ QueryLossLength(w, gamma)

\* lines 296-298 while another thread is inside init(filename): the same
\* race; the value returned is not determined
RacingQuery(w, gamma) ==
    /\ loading.active
    /\ NoWorkerStarted
    /\ pc[w] = "idle"
    /\ lossLen = NoLoss
    /\ lossLen' = [kind |-> "raced", value |-> DoubleMax, id |-> cand[w].id,
                   gamma |-> gamma, z |-> cand[w].z]
    /\ UNCHANGED <<moduleVars, workerVars>>

\* ------------------------------------------------------- inputs of the runs
Redshifts == 0..MaxRedshift
Steps == {Frac(s, 4) : s \in 0..MaxStep}

\* candidates' particles: p, n, anti-p, He-4, C-12 and a photon
ParticleIds ==
    {nucleusId(1, 1), nucleusId(1, 0), -nucleusId(1, 1), nucleusId(4, 2),
     nucleusId(12, 6), 22}

\* Lorentz factors below, on, inside and above the grid 10 .. 1000
LorentzFactors == {9, 10, 50, 1000, 1001}

\* a particle of Lorentz factor g: a nucleus has E = g A nucleon masses
CandidateOf(id, g, z, step) ==
    Candidate(id, IF isNucleus(id) THEN g * massNumber(id) ELSE g, z, step)

Candidates ==
    {CandidateOf(id, g, z, step) :
        id \in ParticleIds, g \in LorentzFactors, z \in Redshifts, step \in Steps}

\* particle lists of the event generator: up to n particles with the given
\* codes; the i-th particle of a list has energy 10 + 10 i
RECURSIVE ParticleLists(_, _)
ParticleLists(codes, n) ==
    IF n = 0 THEN {<<>>}
    ELSE LET shorter == ParticleLists(codes, n - 1)
         IN  shorter \cup
             {Append(l, [pType |-> c, Eout |-> 10 + 10 * n]) :
                 l \in {x \in shorter : Len(x) = n - 1}, c \in codes}

\* code 7 (a pion) has no case in the switch
AllCodes == KnownCodes \cup {7}
SophiaOutputs == ParticleLists(AllCodes, MaxParticles)
\* the lists the runs of the whole step loop draw from
StepOutputs == ParticleLists({13, 14, 7}, 1)

\* --------------------------------------------------------- specifications
\* One worker propagates a candidate through process(); the module is as
\* constructed.
Init ==
    /\ \E field \in {CMB, IRB_Kneiske04, IRB_withRedshift_Kneiske04},
          b \in BOOLEAN :
           Constructed(field, b, b, b, 10, InstalledFiles)
    /\ \E c \in Candidates :
           cand = [w \in Workers |-> IF w = 1 THEN c ELSE NoCandidate]
    /\ pc = [w \in Workers |-> IF w = 1 THEN "idle" ELSE "off"]
    /\ loc = [w \in Workers |-> NoLocals]
    /\ hist = [w \in Workers |-> NoHistory]
    /\ lock = 0
    /\ lossLen = NoLoss

Next ==
    \/ \E w \in Workers : StartProcess(w)
    \/ \E w \in Workers : Iterate(w)
    \/ \E w \in Workers : EnterCritical(w)
    \/ \E w \in Workers : SophiaEvent(w, StepOutputs)
    \/ \E w \in Workers : TranslateEvent(w)
    \/ \E w \in Workers, g \in LorentzFactors : QueryLossLength(w, g)

Spec == Init /\ [][Next]_vars

\* One worker is at the call of performInteraction: its candidate had the
\* sampled distance as its current step, so the loop ends after the event.
EventIds ==
    {nucleusId(1, 1), nucleusId(1, 0), -nucleusId(1, 1), nucleusId(2, 1),
     nucleusId(4, 2), -nucleusId(4, 2), nucleusId(12, 6)}

\* the secondaries a candidate holds when process() is called: none, or an
\* electron an earlier module added
EarlierSecondaries == {<<>>, <<[id |-> 11, E |-> 5]>>}

AtCall(c0, uP, uN) ==
    LET s == Sampling(ChannelRates(c0), uP, uN)
        c == [c0 EXCEPT !.currentStep = s.randDistance]
    IN  /\ cand = [w \in Workers |-> IF w = 1 THEN c ELSE NoCandidate]
        /\ pc = [w \in Workers |-> IF w = 1 THEN "call" ELSE "off"]
        /\ loc = [w \in Workers |->
                     IF w = 1
                     THEN [step |-> c.currentStep,
                           randDistance |-> s.randDistance,
                           channel |-> s.channel, totalRate |-> s.totalRate,
                           dProton |-> s.dProton, dNeutron |-> s.dNeutron,
                           nature |-> 1 - s.channel,
                           Ein |-> c.E \div massNumber(c.id),
                           background |-> IF photonField = CMB THEN 1 ELSE 2,
                           particles |-> <<>>]
                     ELSE NoLocals]
        /\ hist = [w \in Workers |->
                      IF w = 1
                      THEN [start |-> c, outcome |-> "interact",
                            draws |-> s.draws, drawsStart |-> 0,
                            calls |-> 0, interactions |-> 1]
                      ELSE NoHistory]

InitEvent ==
    /\ \E field \in {CMB, IRB_Kneiske04},
          photons \in BOOLEAN, neutrinos \in BOOLEAN, antiNucleons \in BOOLEAN :
           Constructed(field, photons, neutrinos, antiNucleons, 10, InstalledFiles)
    /\ \E id \in EventIds, uP \in LogDraws, uN \in LogDraws,
          earlier \in EarlierSecondaries :
           AtCall([CandidateOf(id, 50, 0, <<0, 1>>) EXCEPT !.secondaries = earlier],
                  uP, uN)
    /\ lock = 0
    /\ lossLen = NoLoss

NextEvent ==
    \/ \E w \in Workers : EnterCritical(w)
    \/ \E w \in Workers : SophiaEvent(w, SophiaOutputs)
    \/ \E w \in Workers : TranslateEvent(w)

SpecEvent == InitEvent /\ [][NextEvent]_vars

\* Every worker thread of the parallel region propagates a candidate.
InitOmp ==
    /\ Constructed(CMB, FALSE, FALSE, FALSE, 10, InstalledFiles)
    /\ cand \in [Workers -> {CandidateOf(id, 50, 0, Frac(MaxStep, 4)) :
                                id \in {nucleusId(1, 1), nucleusId(1, 0)}}]
    /\ pc = [w \in Workers |-> "idle"]
    /\ loc = [w \in Workers |-> NoLocals]
    /\ hist = [w \in Workers |-> NoHistory]
    /\ lock = 0
    /\ lossLen = NoLoss

SpecOmp == InitOmp /\ [][Next]_vars

\* The module is reconfigured while no candidate is being processed.
Directories ==
    {InstalledFiles} \cup
    {[InstalledFiles EXCEPT ![name].readable = FALSE] : name \in FileNames}

InitConfig ==
    /\ \E field \in KnownFields, dir \in Directories :
           Constructed(field, FALSE, FALSE, FALSE, 10, dir)
    /\ cand = [w \in Workers |-> NoCandidate]
    /\ pc = [w \in Workers |-> "off"]
    /\ loc = [w \in Workers |-> NoLocals]
    /\ hist = [w \in Workers |-> NoHistory]
    /\ lock = 0
    /\ lossLen = NoLoss

NextConfig ==
    \/ \E field \in KnownFields \cup {UnknownField} : setPhotonField(field)
    \/ \E b \in BOOLEAN : setHavePhotons(b)
    \/ \E b \in BOOLEAN : setHaveNeutrinos(b)
    \/ \E b \in BOOLEAN : setHaveAntiNucleons(b)
    \/ \E l \in {10, 50} : setLimit(l)

SpecConfig == InitConfig /\ [][NextConfig]_vars

\* Nuclei on either side of A = 1 and A = 8 go through process().
ModificationIds ==
    {nucleusId(1, 1), nucleusId(1, 0), nucleusId(2, 1), nucleusId(4, 2),
     nucleusId(8, 4), nucleusId(9, 4), nucleusId(16, 8)}

InitModification ==
    /\ Constructed(CMB, FALSE, FALSE, FALSE, 10, InstalledFiles)
    /\ \E id \in ModificationIds, z \in Redshifts, step \in Steps :
           cand = [w \in Workers |->
                      IF w = 1 THEN CandidateOf(id, 50, z, step) ELSE NoCandidate]
    /\ pc = [w \in Workers |-> IF w = 1 THEN "idle" ELSE "off"]
    /\ loc = [w \in Workers |-> NoLocals]
    /\ hist = [w \in Workers |-> NoHistory]
    /\ lock = 0
    /\ lossLen = NoLoss

SpecModification == InitModification /\ [][Next]_vars

\* A worker thread that entered process() keeps running, and the event
\* generator returns from every call.  The candidates are nucleons, He-4
\* and a photon whose steps hold at most MaxInteractions interactions.
TerminatingCandidates ==
    {CandidateOf(id, g, 0, step) :
        id \in {nucleusId(1, 1), nucleusId(1, 0)}, g \in {9, 50, 100},
        step \in Steps}
    \cup {CandidateOf(id, 50, 0, step) : id \in {nucleusId(4, 2), 22},
                                          step \in Steps}

InitTerminates ==
    /\ Constructed(CMB, FALSE, FALSE, FALSE, 10, InstalledFiles)
    /\ \E c \in TerminatingCandidates :
           cand = [w \in Workers |-> IF w = 1 THEN c ELSE NoCandidate]
    /\ pc = [w \in Workers |-> IF w = 1 THEN "idle" ELSE "off"]
    /\ loc = [w \in Workers |-> NoLocals]
    /\ hist = [w \in Workers |-> NoHistory]
    /\ lock = 0
    /\ lossLen = NoLoss

SpecTerminates ==
    /\ InitTerminates
    /\ [][Next]_vars
    /\ \A w \in Workers :
           /\ WF_vars(Iterate(w))
           /\ WF_vars(EnterCritical(w))
           /\ WF_vars(SophiaEvent(w, StepOutputs))
           /\ WF_vars(TranslateEvent(w))

\* A thread changes the photon field while a worker propagates a candidate.
InitReload ==
    /\ Constructed(CMB, FALSE, FALSE, FALSE, 10, InstalledFiles)
    /\ \E id \in {nucleusId(1, 1), nucleusId(4, 2)}, step \in Steps :
           cand = [w \in Workers |->
                      IF w = 1 THEN CandidateOf(id, 50, 0, step) ELSE NoCandidate]
    /\ pc = [w \in Workers |-> IF w = 1 THEN "idle" ELSE "off"]
    /\ loc = [w \in Workers |-> NoLocals]
    /\ hist = [w \in Workers |-> NoHistory]
    /\ lock = 0
    /\ lossLen = NoLoss

NextReload ==
    \/ \E w \in Workers : StartProcess(w)
    \/ \E w \in Workers : IterateSettled(w)
    \/ \E w \in Workers : RacingIterate(w)
    \/ \E w \in Workers : EnterCritical(w)
    \/ \E w \in Workers : SophiaEvent(w, StepOutputs)
    \/ \E w \in Workers : TranslateEvent(w)
    \/ \E w \in Workers, g \in {50} : QuerySettled(w, g)
    \/ \E w \in Workers, g \in {50} : RacingQuery(w, g)
    \/ \E field \in {CMB, IRB_Kneiske04} : BeginReload(field)
    \/ ReloadRow
    \/ EndReload

SpecReload == InitReload /\ [][NextReload]_vars

\* Table files of every row order are loaded: a comment line, then up to
\* MaxRows data rows; the i-th row has the rates i and i + 1.
LogGammas == {1, 2, 3}
BlockRows == {<<z, a>> : z \in {0, 1}, a \in {1, 2}}

RECURSIVE RowChoices(_, _)
RowChoices(keys, n) ==
    IF n = 0 THEN {<<>>}
    ELSE LET shorter == RowChoices(keys, n - 1)
         IN  shorter \cup
             {Append(l, k) : l \in {x \in shorter : Len(x) = n - 1}, k \in keys}

Files3 ==
    {<<CommentLine>> \o [i \in 1..Len(as) |-> DataLine(<<as[i], i, i + 1>>)] :
        as \in RowChoices(LogGammas, MaxRows) \ {<<>>}}

Files4 ==
    {<<CommentLine>> \o
     [i \in 1..Len(zas) |-> DataLine(<<zas[i][1], zas[i][2], i, i + 1>>)] :
        zas \in RowChoices(BlockRows, MaxRows) \ {<<>>}}

LoadDirectories ==
    {[InstalledFiles EXCEPT !["ppp_CMB.txt"].lines = f] : f \in Files3} \cup
    {[InstalledFiles EXCEPT !["ppp_IRBz_Kneiske04.txt"].lines = f] : f \in Files4}

InitLoad ==
    /\ \E field \in {CMB, IRB_withRedshift_Kneiske04}, dir \in LoadDirectories :
           Constructed(field, FALSE, FALSE, FALSE, 10, dir)
    /\ cand = [w \in Workers |-> NoCandidate]
    /\ pc = [w \in Workers |-> "off"]
    /\ loc = [w \in Workers |-> NoLocals]
    /\ hist = [w \in Workers |-> NoHistory]
    /\ lock = 0
    /\ lossLen = NoLoss

NextLoad ==
    \E field \in {CMB, IRB_withRedshift_Kneiske04} : setPhotonField(field)

SpecLoad == InitLoad /\ [][NextLoad]_vars

\* ------------------------------------------------------------------ claims
\* worker w is between the decision to interact and the end of the event
InInteraction(w) == pc[w] \in {"call", "sophia", "translate"}

FracEqual(x, y) == x[1] * y[2] = y[1] * x[2]

\* C1 (as stated): an interaction is performed only when the sampled
\* distance is strictly less than the remaining step, and a deferred
\* iteration has a distance >= the step and no generator call.
C1_InteractOnlyStrictlyInside ==
    \A w \in Workers :
        /\ InInteraction(w) => FracLess(loc[w].randDistance, loc[w].step)
        /\ hist[w].outcome = "defer" =>
               /\ ~FracLess(loc[w].randDistance, loc[w].step)
               /\ hist[w].calls = hist[w].interactions

\* C1 (amended): an interaction is performed exactly when the sampled
\* distance is less than or equal to the remaining step; an iteration is
\* deferred only when the remaining step is strictly less than the sampled
\* distance, and then the generator is not called in that iteration.
C1_InteractIffStepNotLess ==
    \A w \in Workers :
        /\ InInteraction(w) => ~FracLess(loc[w].step, loc[w].randDistance)
        /\ hist[w].outcome = "defer" =>
               /\ FracLess(loc[w].step, loc[w].randDistance)
               /\ pc[w] = "done"
               /\ hist[w].calls = hist[w].interactions
        /\ hist[w].calls <= hist[w].interactions

\* an interaction is under way whose distance equals the remaining step
C1_InteractsAtEquality ==
    \E w \in Workers :
        /\ pc[w] = "call"
        /\ FracEqual(loc[w].step, loc[w].randDistance)
        /\ FracPositive(loc[w].step)

\* the particles of a list the loop translated: up to the first code that
\* has no case
RECURSIVE KnownPrefix(_)
KnownPrefix(particles) ==
    IF particles = <<>> \/ Head(particles).pType \notin KnownCodes THEN <<>>
    ELSE <<Head(particles)>> \o KnownPrefix(Tail(particles))

NucleonsIn(particles) ==
    {i \in 1..Len(particles) : particles[i].pType \in NucleonCodes}

\* performInteraction has run to its end or to its throw
EventOver(w) ==
    /\ pc[w] \in {"loop", "done", "thrown"}
    /\ hist[w].outcome = "interact"

\* C2 (as stated): after performInteraction on a nucleus with A > 1 the
\* mass number is A - 1, whatever list the generator returned.
C2_MassAlwaysDrops ==
    \A w \in Workers :
        (EventOver(w) /\ pc[w] # "thrown" /\ massNumber(hist[w].start.id) > 1)
        => massNumber(cand[w].id) = massNumber(hist[w].start.id) - 1

\* C2 (amended): after performInteraction on a nucleus with A > 1 the mass
\* number is A - 1 if the translated part of the list holds at least one
\* nucleon code (one or several), and is still A if it holds none.
C2_MassDropsIffNucleon ==
    \A w \in Workers :
        (EventOver(w) /\ massNumber(hist[w].start.id) > 1)
        => massNumber(cand[w].id) =
              IF NucleonsIn(KnownPrefix(loc[w].particles)) # {}
              THEN massNumber(hist[w].start.id) - 1
              ELSE massNumber(hist[w].start.id)

\* a C-12 event returned two nucleon codes and left mass number 11
C2_TwoNucleonsOneMassUnit ==
    \E w \in Workers :
        /\ EventOver(w) /\ pc[w] = "done"
        /\ massNumber(hist[w].start.id) = 12
        /\ Cardinality(NucleonsIn(loc[w].particles)) = 2
        /\ massNumber(cand[w].id) = 11

\* C3: whenever the last setPhotonField call succeeded, the table held is
\* the selected field's file read in that field's format: the redshift
\* mode is on and the redshift grid non-empty exactly for the field with a
\* redshift axis.
C3_TableIsOfSelectedField ==
    (raised = "none" /\ photonField \in KnownFields) =>
        LET redshiftField == photonField = IRB_withRedshift_Kneiske04
        IN  /\ doRedshiftDependent = redshiftField
            /\ (tabRedshifts # <<>>) = redshiftField
            /\ CurrentTables =
                   Tables(LoadTables(files[DataFile(photonField)].lines,
                                     redshiftField))

\* C4: at most one worker executes sophiaevent_ at any instant.
C4_OneGeneratorCallAtATime ==
    Cardinality({w \in Workers : pc[w] = "sophia"}) <= 1

\* one worker is inside the generator while another waits at the region
C4_SecondWorkerWaits ==
    \E v \in Workers, w \in Workers :
        v # w /\ pc[v] = "sophia" /\ pc[w] = "call" /\ lock = v

\* C5: a deferred iteration limits the next step to limit / totalRate, the
\* total being the rates of exactly the available channels, and returns
\* with the candidate otherwise as at the start of the iteration; a nucleus
\* in range with current step 0 is always deferred.
C5_DeferLimitsNextStep ==
    \A w \in Workers :
        LET c0 == hist[w].start
            A == massNumber(c0.id)
            Z == chargeNumber(c0.id)
            gamma == (1 + c0.z) * getLorentzFactor(c0)
            total ==
                (IF Z > 0
                 THEN ChannelRate(c0.z, gamma, A, Z, tabProtonRate) ELSE 0)
              + (IF A - Z > 0
                 THEN ChannelRate(c0.z, gamma, A, A - Z, tabNeutronRate) ELSE 0)
        IN  /\ hist[w].outcome = "defer" =>
                   /\ pc[w] = "done"
                   /\ loc[w].totalRate = total
                   /\ cand[w] =
                          [c0 EXCEPT !.nextStep =
                              FracMin(c0.nextStep, Frac(limit, total))]
            /\ (hist[w].outcome \in {"defer", "interact"}
                /\ cand[w].currentStep = <<0, 1>>)
               => (hist[w].outcome = "defer" /\ hist[w].interactions = 0)

\* a candidate with current step 0 was deferred and its next step limited
C5_DeferredAtStepZero ==
    \E w \in Workers :
        /\ hist[w].outcome = "defer"
        /\ cand[w].currentStep = <<0, 1>>
        /\ cand[w].nextStep # DoubleMax
        /\ chargeNumber(cand[w].id) = massNumber(cand[w].id)

\* the boosted Lorentz factor of a nucleus
Boosted(c) == (1 + c.z) * getLorentzFactor(c)

\* process() has nothing to do for c: not a nucleus, or strictly outside
OutsideTable(c) ==
    \/ ~isNucleus(c.id)
    \/ Boosted(c) < tabLorentz[1]
    \/ Boosted(c) > tabLorentz[Len(tabLorentz)]

\* the iteration of worker w returned at once and did nothing
ReturnedUntouched(w) ==
    /\ pc[w] = "done"
    /\ cand[w] = hist[w].start
    /\ hist[w].draws = hist[w].drawsStart
    /\ hist[w].calls = hist[w].interactions

ProcessSkipsOutsideTable ==
    \A w \in Workers :
        hist[w].outcome # "none" =>
            /\ (hist[w].outcome \in {"not_nucleus", "out_of_range"})
                   = OutsideTable(hist[w].start)
            /\ hist[w].outcome \in {"not_nucleus", "out_of_range"}
                   => ReturnedUntouched(w)

QueriedOutside ==
    \/ lossLen.gamma * (1 + lossLen.z) < tabLorentz[1]
    \/ lossLen.gamma * (1 + lossLen.z) > tabLorentz[Len(tabLorentz)]

\* C6 (as stated): for a particle that is not a nucleus or whose boosted
\* Lorentz factor is strictly outside the grid, process() returns having
\* drawn, called, limited and changed nothing, and lossLength() returns the
\* largest double; a factor on either bound is sampled.
C6_NoTargetIsNoOpAndInfiniteLoss ==
    /\ ProcessSkipsOutsideTable
    /\ (lossLen.kind # "none" /\ (~isNucleus(lossLen.id) \/ QueriedOutside))
           => lossLen.kind = "max"

\* C6 (amended): process() is as stated; lossLength() returns the largest
\* double exactly when the boosted Lorentz factor is strictly outside the
\* grid, whether or not the particle is a nucleus.
C6_NoTargetIsNoOp ==
    /\ ProcessSkipsOutsideTable
    /\ lossLen.kind # "none" => ((lossLen.kind = "max") = QueriedOutside)

\* a nucleus just above the grid went through process() untouched
C6_AboveGridUntouched ==
    \E w \in Workers :
        /\ hist[w].outcome = "out_of_range"
        /\ isNucleus(cand[w].id)
        /\ Boosted(cand[w]) = tabLorentz[Len(tabLorentz)] + 1
        /\ ReturnedUntouched(w)
        /\ cand[w].nextStep = DoubleMax

\* C7: the channel handed to performInteraction is the neutron channel
\* when only neutrons are there or the neutron distance is strictly the
\* smaller, else the proton channel (also on a tie); the generator is
\* called with nature 0 for the proton and 1 for the neutron channel.
C7_ChannelOfSmallerDistance ==
    \A w \in Workers :
        InInteraction(w) =>
            LET Z == chargeNumber(hist[w].start.id)
                N == massNumber(hist[w].start.id) - Z
                expected ==
                    IF Z > 0 /\ N > 0
                    THEN IF FracLess(loc[w].dNeutron, loc[w].dProton)
                         THEN 0 ELSE 1
                    ELSE IF Z > 0 THEN 1 ELSE 0
            IN  /\ loc[w].channel = expected
                /\ loc[w].nature = (IF expected = 1 THEN 0 ELSE 1)
                /\ loc[w].randDistance =
                       (IF expected = 1 THEN loc[w].dProton ELSE loc[w].dNeutron)

\* both channels sampled the same distance and the proton channel is used
C7_TieGoesToProton ==
    \E w \in Workers :
        /\ pc[w] = "sophia"
        /\ chargeNumber(cand[w].id) > 0
        /\ massNumber(cand[w].id) > chargeNumber(cand[w].id)
        /\ loc[w].dProton = loc[w].dNeutron
        /\ loc[w].channel = 1 /\ loc[w].nature = 0

\* the secondaries the event of worker w appended
Appended(w) ==
    SubSeq(cand[w].secondaries, Len(hist[w].start.secondaries) + 1,
           Len(cand[w].secondaries))

SignOf(id) == IF id > 0 THEN 1 ELSE -1

\* the appended secondaries that are nucleons of the primary's sign
AppendedNucleons(w) ==
    {k \in 1..Len(Appended(w)) :
        Appended(w)[k].id \in
            {SignOf(hist[w].start.id) * nucleusId(1, 1),
             SignOf(hist[w].start.id) * nucleusId(1, 0)}}

\* the event of worker w returned and its list held exactly one nucleon
OneNucleonEvent(w) ==
    /\ EventOver(w) /\ pc[w] # "thrown"
    /\ Cardinality(NucleonsIn(loc[w].particles)) = 1

TheNucleon(w) ==
    loc[w].particles[CHOOSE i \in NucleonsIn(loc[w].particles) : TRUE]

\* C8: a nucleus with A > 1 and energy E whose event returns one nucleon
\* code becomes (A-1, Z-1) on the proton and (A-1, Z) on the neutron
\* channel with energy E - E/A, and one nucleon secondary of the returned
\* type and energy is appended.
C8_NucleusLosesTheNucleon ==
    \A w \in Workers :
        (OneNucleonEvent(w) /\ massNumber(hist[w].start.id) > 1) =>
            LET c0 == hist[w].start
                A == massNumber(c0.id)
                Z == chargeNumber(c0.id)
                p == TheNucleon(w)
            IN  /\ cand[w].id = SignOf(c0.id) *
                       nucleusId(A - 1, IF loc[w].channel = 1 THEN Z - 1 ELSE Z)
                /\ cand[w].E = c0.E - c0.E \div A
                /\ Cardinality(AppendedNucleons(w)) = 1
                /\ \A k \in AppendedNucleons(w) :
                       Appended(w)[k] =
                           [id |-> SignOf(c0.id) *
                                   nucleusId(1, IF p.pType = 13 THEN 1 ELSE 0),
                            E |-> p.Eout]

\* C-12 on its proton channel became B-11 with energy E - E/12
C8_CarbonToBoron ==
    \E w \in Workers :
        /\ OneNucleonEvent(w)
        /\ hist[w].start.id = nucleusId(12, 6) /\ hist[w].start.E = 600
        /\ loc[w].channel = 1
        /\ cand[w].id = nucleusId(11, 5) /\ cand[w].E = 550
        /\ Cardinality(AppendedNucleons(w)) = 1

\* C9: a bare nucleon whose event returns one nucleon code takes that
\* nucleon's type with its own sign and the nucleon's energy, and no
\* nucleon secondary is appended.
C9_BareNucleonIsReplaced ==
    \A w \in Workers :
        (OneNucleonEvent(w) /\ massNumber(hist[w].start.id) = 1) =>
            LET p == TheNucleon(w)
            IN  /\ cand[w].id = SignOf(hist[w].start.id) *
                       nucleusId(1, IF p.pType = 13 THEN 1 ELSE 0)
                /\ massNumber(cand[w].id) = 1
                /\ chargeNumber(cand[w].id) = (IF p.pType = 13 THEN 1 ELSE 0)
                /\ cand[w].E = p.Eout
                /\ AppendedNucleons(w) = {}

\* a proton came out of its event as a neutron of the outgoing energy
C9_ProtonBecomesNeutron ==
    \E w \in Workers :
        /\ OneNucleonEvent(w)
        /\ hist[w].start.id = nucleusId(1, 1)
        /\ cand[w].id = nucleusId(1, 0)
        /\ cand[w].E = TheNucleon(w).Eout
        /\ cand[w].E # hist[w].start.E
        /\ AppendedNucleons(w) = {}

CountCodes(particles, codes) ==
    Cardinality({i \in 1..Len(particles) : particles[i].pType \in codes})

CountIds(secondaries, ids) ==
    Cardinality({k \in 1..Len(secondaries) : secondaries[k].id \in ids})

\* identity and energy of the primary after an event, from the list alone
PrimaryAfter(c0, particles, channel) ==
    LET nucleons == NucleonsIn(particles)
        A == massNumber(c0.id)
        last == CHOOSE i \in nucleons : \A j \in nucleons : j <= i
    IN  IF nucleons = {} THEN <<c0.id, c0.E>>
        ELSE IF A = 1
        THEN <<SignOf(c0.id) * nucleusId(1, 14 - particles[last].pType),
               particles[last].Eout>>
        ELSE <<SignOf(c0.id) * nucleusId(A - 1, chargeNumber(c0.id) - channel),
               c0.E - c0.E \div A>>

\* C10: of an event that returned, the photon, electron and positron codes
\* are appended iff havePhotons, the neutrino codes iff haveNeutrinos, the
\* antinucleon codes iff haveAntiNucleons, and the primary's identity and
\* energy follow from the particle list alone, whatever the switches.
C10_SwitchesGateOnlySecondaries ==
    \A w \in Workers :
        (EventOver(w) /\ pc[w] # "thrown") =>
            LET c0 == hist[w].start
                ps == loc[w].particles
            IN  /\ CountIds(Appended(w), {22, 11, -11}) =
                       (IF havePhotons THEN CountCodes(ps, PhotonCodes) ELSE 0)
                /\ CountIds(Appended(w), {12, -12, 14, -14}) =
                       (IF haveNeutrinos THEN CountCodes(ps, NeutrinoCodes) ELSE 0)
                /\ CountIds(Appended(w), {-SignOf(c0.id) * nucleusId(1, 1),
                                          -SignOf(c0.id) * nucleusId(1, 0)}) =
                       (IF haveAntiNucleons
                        THEN CountCodes(ps, AntiNucleonCodes) ELSE 0)
                /\ <<cand[w].id, cand[w].E>> = PrimaryAfter(c0, ps, loc[w].channel)

\* with every switch off a neutrino and a nucleon came back: the primary
\* changed and only the nucleon was appended
C10_AllOffStillUpdatesPrimary ==
    \E w \in Workers :
        /\ EventOver(w) /\ pc[w] # "thrown"
        /\ ~havePhotons /\ ~haveNeutrinos /\ ~haveAntiNucleons
        /\ CountCodes(loc[w].particles, NeutrinoCodes) = 1
        /\ CountCodes(loc[w].particles, NucleonCodes) = 1
        /\ cand[w].id # hist[w].start.id
        /\ Len(Appended(w)) = 1

\* some particle of the list has a code without a case
HasUnknownCode(particles) ==
    \E i \in 1..Len(particles) : particles[i].pType \notin KnownCodes

\* C11: an event whose particle list holds a code outside 13, 14, -13, -14,
\* 1, 2, 3, 15..18 ends in the throw, and only such an event does, whatever
\* the recording switches; nothing is appended for the unknown particle or
\* for those after it, and a worker that threw takes no further step of
\* process(): its candidate and locals stay as the throw left them.
C11_UnknownCodeIsFatal ==
    /\ [](\A w \in Workers :
            EventOver(w) =>
                /\ (pc[w] = "thrown") = HasUnknownCode(loc[w].particles)
                /\ Len(Appended(w)) <= Len(KnownPrefix(loc[w].particles)))
    /\ [][\A w \in Workers :
            pc[w] = "thrown" =>
                (pc'[w] = "thrown" /\ cand'[w] = cand[w] /\ loc'[w] = loc[w])]_vars

\* with every switch off, a photon code was dropped without an error and
\* the unknown code after it threw
C11_ThrownWithSwitchesOff ==
    \E w \in Workers :
        /\ pc[w] = "thrown"
        /\ ~havePhotons /\ ~haveNeutrinos /\ ~haveAntiNucleons
        /\ Len(loc[w].particles) = 2
        /\ loc[w].particles[1].pType = 1
        /\ loc[w].particles[2].pType \notin KnownCodes
        /\ Appended(w) = <<>>

IsPrefix(s, t) == Len(s) <= Len(t) /\ SubSeq(t, 1, Len(s)) = s

\* the place in the generator's list of the particle with energy E (the
\* i-th particle of a list has energy 10 + 10 i)
PlaceInList(particles, E) ==
    CHOOSE i \in 0..Len(particles) :
        IF \E j \in 1..Len(particles) : particles[j].Eout = E
        THEN i > 0 /\ particles[i].Eout = E
        ELSE i = 0

\* C12: no step of process() removes, changes or reorders a secondary the
\* candidate already holds: the list before the step is a prefix of the
\* list after it; and the secondaries one event appended are particles of
\* the generator's list, in the order of that list.
C12_SecondariesOnlyAppended ==
    /\ [][\A w \in Workers :
            IsPrefix(cand[w].secondaries, cand'[w].secondaries)]_vars
    /\ [](\A w \in Workers :
            EventOver(w) =>
                /\ IsPrefix(hist[w].start.secondaries, cand[w].secondaries)
                /\ \A k \in 1..Len(Appended(w)) :
                       PlaceInList(loc[w].particles, Appended(w)[k].E) > 0
                /\ \A j \in 1..Len(Appended(w)), k \in 1..Len(Appended(w)) :
                       j < k =>
                           PlaceInList(loc[w].particles, Appended(w)[j].E)
                           < PlaceInList(loc[w].particles, Appended(w)[k].E))

\* a candidate that held an electron got two secondaries behind it, the
\* first and the second particle of the generator's list
C12_TwoAppendedBehindEarlier ==
    \E w \in Workers :
        /\ EventOver(w) /\ pc[w] = "done"
        /\ hist[w].start.secondaries = <<[id |-> 11, E |-> 5]>>
        /\ Len(cand[w].secondaries) = 3
        /\ cand[w].secondaries[1] = [id |-> 11, E |-> 5]
        /\ cand[w].secondaries[2].E = loc[w].particles[1].Eout
        /\ cand[w].secondaries[3].E = loc[w].particles[2].Eout

\* the data rows of a file, in file order
RECURSIVE DataRows(_)
DataRows(file) ==
    IF file = <<>> THEN <<>>
    ELSE IF Head(file).comment THEN DataRows(Tail(file))
    ELSE <<Head(file).nums>> \o DataRows(Tail(file))

StrictlyAscending(X) == \A i \in 1..(Len(X) - 1) : X[i] < X[i + 1]

\* the longest strictly ascending run X starts with
FirstAscendingRun(X) ==
    LET n == CHOOSE k \in 0..Len(X) :
                 /\ StrictlyAscending(SubSeq(X, 1, k))
                 /\ (k < Len(X) => ~StrictlyAscending(SubSeq(X, 1, k + 1)))
    IN  SubSeq(X, 1, n)

\* C13: after a file was loaded in its own format, lorentzGrid is strictly
\* ascending and is the first ascending run of the rows' gamma values, the
\* two rate arrays hold the rates of all data rows in file order, and for
\* a three-column file of n strictly ascending rows all three have length n.
C13_GridIsFirstAscendingRun ==
    (raised = "none"
     /\ doRedshiftDependent = (photonField = IRB_withRedshift_Kneiske04)) =>
        LET rows == DataRows(files[DataFile(photonField)].lines)
            col == IF doRedshiftDependent THEN 2 ELSE 1
            gammas == [i \in 1..Len(rows) |-> Pow10(rows[i][col])]
        IN  /\ StrictlyAscending(tabLorentz)
            /\ tabLorentz = FirstAscendingRun(gammas)
            /\ tabProtonRate = [i \in 1..Len(rows) |-> rows[i][col + 1]]
            /\ tabNeutronRate = [i \in 1..Len(rows) |-> rows[i][col + 2]]
            /\ (~doRedshiftDependent /\ StrictlyAscending(gammas))
                   => Len(tabLorentz) = Len(rows)

\* the secondaries the same list and channel append for the matter
\* primary that mirrors the antimatter primary c0, and that primary after
MirrorEvent(c0, particles, channel) ==
    LET r == Translate([c0 EXCEPT !.id = -c0.id], particles, channel,
                       CurrentToggles).cand
    IN  [id |-> r.id,
         appended |-> SubSeq(r.secondaries, Len(c0.secondaries) + 1,
                             Len(r.secondaries))]

\* the event of worker w returned and its primary was antimatter
AntimatterEvent(w) ==
    EventOver(w) /\ pc[w] # "thrown" /\ hist[w].start.id < 0

\* C14 (as stated): for an antimatter primary the updated primary id and
\* the id of every appended secondary are the negation of the ids the same
\* list gives for the matter primary, and an antinucleon code yields a
\* secondary of the sign opposite to the primary's.
C14_EveryIdNegated ==
    \A w \in Workers :
        AntimatterEvent(w) =>
            LET m == MirrorEvent(hist[w].start, loc[w].particles, loc[w].channel)
            IN  /\ cand[w].id = -m.id
                /\ Len(Appended(w)) = Len(m.appended)
                /\ \A k \in 1..Len(Appended(w)) :
                       Appended(w)[k].id = -m.appended[k].id
                /\ CountIds(Appended(w), {nucleusId(1, 1), nucleusId(1, 0)}) =
                       (IF haveAntiNucleons
                        THEN CountCodes(loc[w].particles, AntiNucleonCodes)
                        ELSE 0)

\* C14 (amended): as stated for the primary and for every secondary but
\* the photon: a photon code is recorded with id 22 for the antimatter and
\* for the matter primary alike.
C14_EveryIdNegatedButPhoton ==
    \A w \in Workers :
        AntimatterEvent(w) =>
            LET m == MirrorEvent(hist[w].start, loc[w].particles, loc[w].channel)
            IN  /\ cand[w].id = -m.id
                /\ Len(Appended(w)) = Len(m.appended)
                /\ \A k \in 1..Len(Appended(w)) :
                       /\ Appended(w)[k].E = m.appended[k].E
                       /\ Appended(w)[k].id =
                              (IF m.appended[k].id = 22 THEN 22
                               ELSE -m.appended[k].id)
                /\ CountIds(Appended(w), {22}) =
                       (IF havePhotons THEN CountCodes(loc[w].particles, {1})
                        ELSE 0)
                /\ CountIds(Appended(w), {nucleusId(1, 1), nucleusId(1, 0)}) =
                       (IF haveAntiNucleons
                        THEN CountCodes(loc[w].particles, AntiNucleonCodes)
                        ELSE 0)

\* an anti-helium event returned a proton and a photon code: the fragment
\* and the nucleon are antimatter, the photon has id 22
C14_AntiHeliumWithPhoton ==
    \E w \in Workers :
        /\ AntimatterEvent(w)
        /\ hist[w].start.id = -nucleusId(4, 2)
        /\ havePhotons
        /\ Len(loc[w].particles) = 2
        /\ loc[w].particles[1].pType = 13 /\ loc[w].particles[2].pType = 1
        /\ cand[w].id < 0 /\ massNumber(cand[w].id) = 3
        /\ Appended(w)[1].id = -nucleusId(1, 1)
        /\ Appended(w)[2].id = 22

\* the factor the claim gives, in hundredths: 1 for A = 1, 0.85 X^(2/3)
\* for 2 <= A <= 8, 0.85 X for A > 8
ModificationByA(A, X) ==
    CASE A = 1 -> 100
      [] A \in 2..8 -> ICbrt(614125 * X * X, 0, 85 * X)
      [] A > 8 -> 85 * X

\* the rate of a single nucleon at the candidate's Lorentz factor, from a
\* table without a redshift axis
NucleonRate(c, tabRate) ==
    (1 + c.z) * (1 + c.z) * photonFieldScaling(photonField, c.z)
    * interpolate(Boosted(c), tabLorentz, tabRate)

\* the iteration of worker w sampled distances
Sampled(w) == hist[w].outcome \in {"defer", "interact"}

\* C15: the factor nucleiModification(A, X) puts on a channel's rate is
\* 1.0 when A = 1 whatever X, 0.85 X^(2/3) when 2 <= A <= 8 and 0.85 X when
\* A > 8: the total rate an iteration sums is the nucleon rates times these
\* factors, and (1, X), (4, 2), (8, 4), (16, 8) give 1, 0.85 * 2^(2/3),
\* 0.85 * 4^(2/3), 0.85 * 8.
C15_ModificationByMassNumber ==
    /\ \A X \in 0..8 : nucleiModification(1, X) = 100
    /\ nucleiModification(4, 2) = 134
    /\ nucleiModification(8, 4) = 214
    /\ nucleiModification(16, 8) = 680
    /\ \A w \in Workers :
           (Sampled(w) /\ ~doRedshiftDependent) =>
               LET c0 == hist[w].start
                   A == massNumber(c0.id)
                   Z == chargeNumber(c0.id)
                   N == A - Z
               IN  loc[w].totalRate =
                       (IF Z > 0
                        THEN NucleonRate(c0, tabProtonRate) * ModificationByA(A, Z)
                        ELSE 0)
                     + (IF N > 0
                        THEN NucleonRate(c0, tabNeutronRate) * ModificationByA(A, N)
                        ELSE 0)

\* Be-8 was sampled with the factor of the light nuclei on both channels,
\* which is not the factor 0.85 * 4 of the heavier ones
C15_BerylliumEightIsLight ==
    \E w \in Workers :
        /\ Sampled(w)
        /\ hist[w].start.id = nucleusId(8, 4)
        /\ loc[w].totalRate =
               214 * (NucleonRate(hist[w].start, tabProtonRate)
                      + NucleonRate(hist[w].start, tabNeutronRate))
        /\ loc[w].totalRate #
               340 * (NucleonRate(hist[w].start, tabProtonRate)
                      + NucleonRate(hist[w].start, tabNeutronRate))

\* C16: a setPhotonField call that throws (unknown selector, or file that
\* cannot be opened) leaves the selected field, the redshift flag and the
\* four table arrays exactly as they were before the call.
C16_FailedCallChangesNothing ==
    [][raised' # "none" =>
          /\ photonField' = photonField
          /\ doRedshiftDependent' = doRedshiftDependent
          /\ tabLorentz' = tabLorentz
          /\ tabRedshifts' = tabRedshifts
          /\ tabProtonRate' = tabProtonRate
          /\ tabNeutronRate' = tabNeutronRate]_vars

\* the four arrays are all the rows of one of the table files
TableIsWhole ==
    \E field \in KnownFields, flag \in BOOLEAN :
        CurrentTables = Tables(LoadTables(files[DataFile(field)].lines, flag))

\* this step is worker w's range check of process(): it reads the grid
\* of the state it starts from
ProcessReadsTable(w) ==
    pc[w] = "loop" /\ pc'[w] # "loop" /\ isNucleus(cand[w].id)

\* this step is a lossLength() call for worker w's particle
QueryReadsTable(w) ==
    pc[w] = "idle" /\ lossLen = NoLoss /\ lossLen' # NoLoss

ReadsTable(w) == ProcessReadsTable(w) \/ QueryReadsTable(w)

\* C17 (as stated): a process() or lossLength() call that runs while
\* another thread's setPhotonField rebuilds the table never reads an empty
\* or partly filled table, only the whole old or the whole new one.
C17_ReadersSeeWholeTable ==
    [][\A w \in Workers : ReadsTable(w) => TableIsWhole]_vars

\* C17 (amended): the table is rebuilt in place, emptied and refilled row
\* by row; it is whole whenever no setPhotonField call is under way, so a
\* process() or lossLength() call that does not overlap a rebuild reads a
\* whole table, and only a call that overlaps one can read an empty or
\* partly filled table.
C17_WholeTableOutsideRebuild ==
    /\ [](~loading.active => TableIsWhole)
    /\ [][\A w \in Workers :
            (ReadsTable(w) /\ ~loading.active) =>
                /\ TableIsWhole
                /\ ProcessReadsTable(w) => hist'[w].outcome # "raced"
                /\ QueryReadsTable(w) => lossLen'.kind # "raced"]_vars

\* a worker's range check ran on the grid another thread had just emptied
C17_ReadOfEmptiedGrid ==
    \E w \in Workers :
        /\ hist[w].outcome = "raced"
        /\ loading.active
        /\ tabLorentz = <<>>
        /\ loading.rows # <<>>

ValidNucleus(id) ==
    /\ isNucleus(id)
    /\ massNumber(id) >= 1
    /\ chargeNumber(id) >= 0
    /\ chargeNumber(id) <= massNumber(id)

\* C18: a candidate that was a nucleus when an iteration of process()
\* began is a valid nucleus (A >= 1, 0 <= Z <= A) at every point after, and
\* an interaction is on the proton channel only if the nucleus it acts on
\* has Z > 0, on the neutron channel only if it has A - Z > 0, for the
\* first and for every later interaction of the call.
C18_StaysValidNucleus ==
    \A w \in Workers :
        /\ (isNucleus(hist[w].start.id) \/ isNucleus(cand[w].id))
               => ValidNucleus(cand[w].id)
        /\ InInteraction(w) =>
               /\ cand[w] = hist[w].start
               /\ loc[w].channel \in {0, 1}
               /\ loc[w].channel = 1 => chargeNumber(cand[w].id) > 0
               /\ loc[w].channel = 0 =>
                      massNumber(cand[w].id) - chargeNumber(cand[w].id) > 0

\* He-4 lost both protons in two interactions of one call and is a valid
\* nucleus of two neutrons
C18_HeliumToTwoNeutrons ==
    \E w \in Workers :
        /\ EventOver(w)
        /\ hist[w].interactions = 2
        /\ hist[w].start.id = nucleusId(3, 1)
        /\ loc[w].channel = 1
        /\ cand[w].id = nucleusId(2, 0)

\* C19: a process() call that entered its loop reaches its return or its
\* throw; every sampled distance of an interaction is strictly positive,
\* the pass that interacts leaves a strictly smaller remaining step, and
\* the loop is left exactly when the remaining step is not above 0.
C19_ProcessTerminates ==
    /\ \A w \in Workers : (pc[w] = "loop") ~> (pc[w] \in {"done", "thrown"})
    /\ [](\A w \in Workers :
            InInteraction(w) => FracPositive(loc[w].randDistance))
    /\ [][\A w \in Workers :
            (pc[w] = "translate" /\ pc'[w] \in {"loop", "done"}) =>
                /\ FracLess(loc'[w].step, loc[w].step)
                /\ (pc'[w] = "loop") = FracPositive(loc'[w].step)]_vars

\* a call made two interactions, used up its step and returned
C19_ReturnedAfterTwoInteractions ==
    \E w \in Workers :
        /\ pc[w] = "done"
        /\ hist[w].outcome = "interact"
        /\ hist[w].interactions = 2
        /\ ~FracPositive(loc[w].step)

\* x + y of two lengths
FracAdd(x, y) == Frac(x[1] * y[2] + y[1] * x[2], x[2] * y[2])

ZeroLength == <<0, 1>>

\* the length the interactions of worker w's call have used so far
Travelled(w) == FracSub(cand[w].currentStep, loc[w].step)

\* C20: within a process() call on a candidate whose current step is not
\* negative the remaining step is never negative, an interaction is only
\* performed at a distance that fits into the remaining step, and each
\* interaction adds its distance to the length used, which never exceeds
\* the candidate's current step.
C20_InteractionsInsideStep ==
    /\ [](\A w \in Workers :
            pc[w] \notin {"off", "idle"} =>
                /\ ~FracLess(loc[w].step, ZeroLength)
                /\ ~FracLess(Travelled(w), ZeroLength)
                /\ ~FracLess(cand[w].currentStep, Travelled(w))
                /\ InInteraction(w) =>
                       ~FracLess(cand[w].currentStep,
                                 FracAdd(Travelled(w), loc[w].randDistance)))
    /\ [][\A w \in Workers :
            (pc[w] = "translate" /\ pc'[w] \in {"loop", "done"}) =>
                /\ cand'[w].currentStep = cand[w].currentStep
                /\ FracSub(cand'[w].currentStep, loc'[w].step) =
                       FracAdd(Travelled(w), loc[w].randDistance)]_vars

\* two interactions were placed in a step and used it up to the end
C20_TwoInteractionsFillTheStep ==
    \E w \in Workers :
        /\ EventOver(w)
        /\ hist[w].interactions = 2
        /\ FracPositive(cand[w].currentStep)
        /\ Travelled(w) = cand[w].currentStep
        /\ loc[w].step = ZeroLength

====
